---- MODULE Spec2Model ----
(***************************************************************************)
(* DataLens core: the read-only connector guard, the shared column         *)
(* statistics engine and the table quality analyzer.                       *)
(*                                                                         *)
(* Percentages and scores are fixed-point integers in hundredths           *)
(* (100.00 % = 10000).  A float mean is kept as the exact pair             *)
(* (sum, count) and compared by cross-multiplication.                      *)
(***************************************************************************)
EXTENDS Integers, Sequences, FiniteSets, TLC

VARIABLES
    kind,       \* connector variant built by get_connector
    conn,       \* BaseConnector._conn is a live handle (TRUE) or None (FALSE)
    call,       \* the last execute() call and what became of it
    score,      \* argument handed to _score_to_grade (hundredths)
    grade,      \* what _score_to_grade returned for it
    st_in,      \* the table/column facts one get_column_stats call runs against
    st_out,     \* what that get_column_stats call produced
    columns,    \* analyze_table_quality: the column metadata it is given
    db,         \* facts of the analysed table: rows, repeated key combinations
    pc,         \* where analyze_table_quality stands
    metrics,    \* the report under construction
    scores,     \* the contributions to the score average
    total_rows, \* local total_rows of analyze_table_quality
    faults,     \* table-level queries that raised during the analysis
    latest,     \* what the MAX query of _compute_freshness came back with
    schema,     \* the schema argument of analyze_table_quality
    issued,     \* the data queries the analysis has sent to the connector
    table_metrics, \* compute_database_quality_overview: the reports given
    overview,   \* what compute_database_quality_overview returned
    built,      \* the get_connector call: the kind asked for, what it raised
    link,       \* the last connect() call: what the driver did, what came out
    catalog,    \* the connected database: its tables and their columns
    _sessions,  \* main._sessions: the entry of the session "default"
    _schema_snapshots,  \* main._schema_snapshots: the entry "default_initial"
    _chat_history,      \* main._chat_history: length of the session's history
    baseline,   \* the schema recorded when the session was connected
    reply       \* what the last request handler answered

guardVars == <<kind, conn, call, built, link>>
gradeVars == <<score, grade>>
statsVars == <<st_in, st_out>>

analysisVars == <<columns, db, pc, metrics, scores, total_rows, faults, latest,
                  schema, issued>>
overviewVars == <<table_metrics, overview>>
sessionVars == <<catalog, _sessions, _schema_snapshots, _chat_history, baseline, reply>>
otherVars == <<kind, conn, call, built, link, score, grade, st_in, st_out,
               columns, db, pc, metrics, scores, total_rows, faults, latest,
               schema, issued, table_metrics, overview>>

vars == <<kind, conn, call, score, grade, st_in, st_out,
          columns, db, pc, metrics, scores, total_rows, faults, latest,
          schema, issued, table_metrics, overview, built, link,
          catalog, _sessions, _schema_snapshots, _chat_history, baseline, reply>>

(***************************************************************************)
(* Bounds of the model                                                     *)
(***************************************************************************)
MaxCols == 2            \* columns of the analysed table
MaxRows == 2            \* rows of the analysed table
MaxStep == 3            \* largest score increase compared in one step
MaxSmallRows == 8       \* row counts 0..MaxSmallRows are all drawn
TieRows == 32           \* a row count whose percentages fall half way
BigRows == 20000        \* first of the large row counts that are drawn
BigSpan == 2            \* large row counts BigRows .. BigRows + BigSpan
MaxGap == 3             \* nulls and duplicates drawn within MaxGap of 0 and of all

Pct(p) == p * 100       \* p percent (or points) in hundredths

None == "None"

(***************************************************************************)
(* SQL statements, as far as the guard's regular expression reads them     *)
(***************************************************************************)
ReadOnlyKeywords == {"SELECT", "WITH", "SHOW", "DESCRIBE", "EXPLAIN", "PRAGMA", "VALUES"}

_WRITE_PATTERN ==
    {"INSERT", "UPDATE", "DELETE", "DROP", "CREATE", "ALTER", "TRUNCATE",
     "MERGE", "REPLACE", "CALL", "EXEC", "EXECUTE", "GRANT", "REVOKE"}

OtherKeywords == {"VACUUM", "ATTACH", "COPY", "SET"}

Keywords == ReadOnlyKeywords \cup _WRITE_PATTERN \cup OtherKeywords

\* What precedes the leading keyword: nothing, white space, or a SQL comment.
Prefixes == {"", "ws", "comment"}
\* What follows it: white space, the end of the string, or a parenthesis.
Followers == {"space", "end", "paren"}

\* A statement: its leading keyword as a word and the letter case it is
\* written in, with the text around the keyword.
Statements ==
    [prefix : Prefixes, word : Keywords, lower : BOOLEAN, follow : Followers]

\* str.upper() of the keyword as written.
Upper(sql) == sql.word

\* The statement's leading keyword, whatever surrounds it.
LeadingKeyword(sql) == Upper(sql)

\* re.match(r"^\s*(INSERT|...)\b", sql, re.IGNORECASE): "^\s*" skips white
\* space only, so a comment before the keyword defeats the match; "\b" holds
\* before a blank, a parenthesis and the end of the string.
WritePatternMatches(sql) ==
    /\ sql.prefix \in {"", "ws"}
    /\ Upper(sql) \in _WRITE_PATTERN

\* sql.strip().split()[0].upper(): the first blank-separated token, which
\* carries the parenthesis and what follows when no blank separates them.
FirstToken(sql) ==
    [keyword |-> Upper(sql), glued |-> sql.follow = "paren"]

NoError == [type |-> None]

\* BaseConnector._assert_read_only: the exception it raises, or NoError.
_assert_read_only(sql) ==
    IF WritePatternMatches(sql)
    THEN [type |-> "ValueError", text |-> "Write operation not permitted",
          first |-> FirstToken(sql)]
    ELSE NoError

(***************************************************************************)
(* Connector variants and execute()                                        *)
(***************************************************************************)
Variants == {"sqlite", "snowflake", "postgresql"}

\* Whether the variant's execute() starts with self._assert_read_only(sql).
SQLiteGuards == TRUE
SnowflakeGuards == TRUE
PostgreSQLGuards == FALSE

GuardsExecute(k) ==
    CASE k = "sqlite" -> SQLiteGuards
      [] k = "snowflake" -> SnowflakeGuards
      [] k = "postgresql" -> PostgreSQLGuards

\* What the backend cursor can do with a statement handed to it.
BackendOutcomes == {"rows", "DatabaseError", "AttributeError"}

\* One execute() call of variant k on statement sql with the connection
\* live or not, the backend answering b: the record of the call.
ExecuteCall(k, live, sql, b) ==
    LET guard == IF GuardsExecute(k) THEN _assert_read_only(sql) ELSE NoError IN
    IF guard.type # None
    THEN [made |-> TRUE, sql |-> sql, handed |-> FALSE, error |-> guard]
    ELSE IF ~live
    THEN \* snowflake tests self._conn; the others fail on None.cursor()
         [made |-> TRUE, sql |-> sql, handed |-> FALSE,
          error |-> [type |-> IF k = "snowflake" THEN "ConnectionError"
                              ELSE "AttributeError"]]
    ELSE IF b = "rows"
    THEN [made |-> TRUE, sql |-> sql, handed |-> TRUE, error |-> NoError]
    ELSE IF k = "snowflake" /\ b = "AttributeError"
    THEN [made |-> TRUE, sql |-> sql, handed |-> TRUE, error |-> [type |-> "ConnectionError"]]
    ELSE [made |-> TRUE, sql |-> sql, handed |-> TRUE, error |-> [type |-> b]]

\* No call in flight (sql is then a placeholder).
NoCall ==
    [made |-> FALSE,
     sql |-> [prefix |-> "", word |-> "SELECT", lower |-> FALSE, follow |-> "end"],
     handed |-> FALSE, error |-> NoError]

\* class DBType: the backend kinds a configuration can select.
DBType == {"sqlite", "postgresql", "sqlserver", "snowflake", "mysql"}

\* The connector class of a variant.
ConnectorClass ==
    [sqlite |-> "SQLiteConnector", postgresql |-> "PostgreSQLConnector",
     snowflake |-> "SnowflakeConnector"]

\* Variant: a kind without a connector class falls back to SQLite.
get_connector_defaulting(db_type) ==
    IF db_type \in Variants
    THEN [raised |-> NoError, kind |-> db_type, class |-> ConnectorClass[db_type]]
    ELSE [raised |-> NoError, kind |-> "sqlite", class |-> ConnectorClass["sqlite"]]

\* get_connector: the connector built (its variant and class), or the
\* ValueError raised, whose message quotes config.db_type and lists the
\* keys of the mapping.
get_connector(db_type) ==
    IF db_type \in Variants
    THEN [raised |-> NoError, kind |-> db_type, class |-> ConnectorClass[db_type]]
    ELSE [raised |-> [type |-> "ValueError", text |-> "is not yet implemented",
                      names |-> db_type, supported |-> Variants],
          kind |-> None, class |-> None]

NotBuilt == [asked |-> None, raised |-> NoError, class |-> None]

GetConnector ==
    /\ built.asked = None
    /\ \E t \in DBType :
         LET r == get_connector(t) IN
         /\ built' = [asked |-> t, raised |-> r.raised, class |-> r.class]
         /\ kind' = r.kind
    /\ UNCHANGED <<conn, call, link, gradeVars, statsVars, analysisVars, overviewVars, sessionVars>>

\* What the driver's connect function does: it returns a session, or it
\* raises its DatabaseError (authentication, network), an AttributeError
\* from inside the library (a null response object), or something else.
DriverOutcomes == {"session", "DatabaseError", "AttributeError", "OtherError"}

\* Whether the variant's connect() wraps the driver call in a try block whose
\* handlers raise ConnectionError.
SQLiteTranslates == FALSE
SnowflakeTranslates == TRUE
PostgreSQLTranslates == FALSE

TranslatesConnect(k) ==
    CASE k = "sqlite" -> SQLiteTranslates
      [] k = "snowflake" -> SnowflakeTranslates
      [] k = "postgresql" -> PostgreSQLTranslates

\* One connect() call of variant k with the driver doing d: the exception
\* that reaches the caller, NoError with a session.
ConnectCall(k, d) ==
    IF d = "session" THEN NoError
    ELSE IF TranslatesConnect(k)
    THEN [type |-> "ConnectionError", from |-> d, readable |-> TRUE]
    ELSE [type |-> d, from |-> d, readable |-> FALSE]

NotConnecting == [called |-> FALSE, driver |-> "session", error |-> NoError]

Connect ==
    /\ kind \in Variants
    /\ ~call.made
    /\ ~conn
    /\ \E d \in DriverOutcomes :
         LET e == ConnectCall(kind, d) IN
         /\ link' = [called |-> TRUE, driver |-> d, error |-> e]
         /\ conn' = (e = NoError)
    /\ UNCHANGED <<kind, call, built, gradeVars, statsVars, analysisVars, overviewVars, sessionVars>>

Disconnect ==
    /\ kind \in Variants
    /\ ~call.made
    /\ conn' = FALSE
    /\ UNCHANGED <<kind, call, built, link, gradeVars, statsVars, analysisVars, overviewVars, sessionVars>>

\* A caller runs one statement; calls are synchronous, one at a time.
Execute ==
    /\ kind \in Variants
    /\ ~call.made
    /\ \E sql \in Statements, b \in BackendOutcomes :
         call' = ExecuteCall(kind, conn, sql, b)
    /\ UNCHANGED <<kind, conn, built, link, gradeVars, statsVars, analysisVars, overviewVars, sessionVars>>

\* The caller has taken the rows or the exception of the call.
Return ==
    /\ call.made
    /\ call' = NoCall
    /\ UNCHANGED <<kind, conn, built, link, gradeVars, statsVars, analysisVars, overviewVars, sessionVars>>

(***************************************************************************)
(* The shared statistics engine: BaseConnector.get_column_stats            *)
(***************************************************************************)
EmptyDict == [k \in {} |-> None]

Has(d, k) == k \in DOMAIN d

\* dict.get(k, default)
Get(d, k, default) == IF Has(d, k) THEN d[k] ELSE default

\* The declared types the model draws from, by the heuristics they meet.
DataTypes == {"INTEGER", "TEXT", "TIMESTAMP"}

\* any(h in dtype.lower() for h in _NUMERIC)
IsNumericType(dtype) == dtype = "INTEGER"

\* any(h in dtype.lower() for h in _DATE); quality_analyzer.py uses the same
\* substrings to pick the freshness column.
IsDateType(dtype) == dtype = "TIMESTAMP"

\* round(num / den * 100, 2) in hundredths.  The quotient is rounded to the
\* nearest hundredth; when it lies exactly half way, the float that stands
\* for it decides, so either neighbour can come out (up tells which).
Round2(num, den, up) ==
    LET q == (num * 10000) \div den
        r == (num * 10000) % den
    IN  IF 2 * r < den THEN q
        ELSE IF 2 * r > den THEN q + 1
        ELSE IF up THEN q + 1 ELSE q

IsTie(num, den) == den > 0 /\ 2 * ((num * 10000) % den) = den

TieOf(field, num, den) == IF IsTie(num, den) THEN {field} ELSE {}

\* stats["null_pct"] = round(nulls / total * 100, 2) if total else 0
null_pct(total, nulls, up) ==
    IF total # 0 THEN Round2(nulls, total, up) ELSE 0

\* Variant: the NULLs, not the values, over the rows.
completeness_pct_of_nulls(total, nulls, up) ==
    IF total # 0 THEN Round2(nulls, total, up) ELSE 0

\* stats["completeness_pct"] = round((total - nulls) / total * 100, 2) if total else 0
completeness_pct(total, nulls, up) ==
    IF total # 0 THEN Round2(total - nulls, total, up) ELSE 0

\* stats["uniqueness_pct"] = round(distinct / non_null * 100, 2) if non_null > 0 else 0
uniqueness_pct(distinct, non_null, up) ==
    IF non_null > 0 THEN Round2(distinct, non_null, up) ELSE 0

\* The rows the aggregate query can return for a column with the given
\* number of distinct non-null values: <<MIN, MAX>>, or None without values.
AggResults(distinct) ==
    IF distinct = 0 THEN {None}
    ELSE IF distinct = 1 THEN {<<-1, -1>>, <<1, 1>>}
    ELSE {<<-2, -1>>, <<-1, 2>>, <<1, 2>>}

Min2(a, b) == IF a < b THEN a ELSE b

\* Whether a statement that failed leaves the variant's session refusing
\* every later statement.  PostgreSQLConnector.connect leaves the psycopg2
\* connection in its default transaction mode and no code path rolls back,
\* so after an error the transaction stays aborted; sqlite3 fails the one
\* statement only, and the Snowflake session commits each statement.
SQLiteStaysAborted == FALSE
SnowflakeStaysAborted == FALSE
PostgreSQLStaysAborted == TRUE

StaysAborted(k) ==
    CASE k = "sqlite" -> SQLiteStaysAborted
      [] k = "snowflake" -> SnowflakeStaysAborted
      [] k = "postgresql" -> PostgreSQLStaysAborted

\* What one call meets at the backend: the first query other than the
\* standard-deviation one that raises of its own (None: none does),
\* whether the standard-deviation query raises, whether a failed statement
\* makes the session refuse the later ones, the aggregate row, and which
\* of the three roundings fall upwards when half way.
Oracles(t) ==
    [fail : {None, "total", "nulls", "distinct", "agg", "top", "date"},
     std_fails : BOOLEAN,
     aborts : {StaysAborted(kind)},
     agg : AggResults(t.distinct),
     up : SUBSET (TieOf("null_pct", t.nulls, t.total)
                  \cup TieOf("completeness_pct", t.total - t.nulls, t.total)
                  \cup TieOf("uniqueness_pct", t.distinct, t.total - t.nulls))]

\* The body of the try block: the fields stored so far and the query that
\* raised (None when the block ran to its end).
StatsBody(t, o) ==
    LET non_null == t.total - t.nulls
        s1 == ("total_rows" :> t.total) @@ ("null_count" :> t.nulls)
              @@ ("null_pct" :> null_pct(t.total, t.nulls, "null_pct" \in o.up))
              @@ ("completeness_pct" :>
                    completeness_pct(t.total, t.nulls, "completeness_pct" \in o.up))
        s2 == s1 @@ ("distinct_count" :> t.distinct)
              @@ ("uniqueness_pct" :>
                    uniqueness_pct(t.distinct, non_null, "uniqueness_pct" \in o.up))
        numeric == IsNumericType(t.dtype)
        s3 == IF numeric /\ o.agg # None
              THEN s2 @@ ("min" :> o.agg[1]) @@ ("max" :> o.agg[2])
                      @@ ("avg" :> (o.agg[1] + o.agg[2]) * 50)
                      @@ ("sum" :> o.agg[1] + o.agg[2])
              ELSE s2
        s4 == IF numeric /\ o.agg # None /\ ~o.std_fails
              THEN s3 @@ ("std_dev" :> (o.agg[2] - o.agg[1]) * 50)
              ELSE s3
        s5 == IF t.distinct <= 50
              THEN s4 @@ ("top_values" :> Min2(t.distinct, 5))
              ELSE s4
        s6 == IF IsDateType(t.dtype)
              THEN s5 @@ ("min_date" :> IF t.distinct = 0 THEN None ELSE "min")
                      @@ ("max_date" :> IF t.distinct = 0 THEN None ELSE "max")
              ELSE s5
        \* the standard-deviation query was issued, raised inside the inner
        \* try, and the session refuses what follows
        refused == numeric /\ o.agg # None /\ o.std_fails /\ o.aborts
    IN  IF o.fail \in {"total", "nulls"} THEN [stats |-> EmptyDict, exc |-> o.fail]
        ELSE IF o.fail = "distinct" THEN [stats |-> s1, exc |-> o.fail]
        ELSE IF o.fail = "agg" /\ numeric THEN [stats |-> s2, exc |-> o.fail]
        ELSE IF (o.fail = "top" \/ refused) /\ t.distinct <= 50
        THEN [stats |-> s4, exc |-> "top"]
        ELSE IF (o.fail = "date" \/ refused) /\ IsDateType(t.dtype)
        THEN [stats |-> s5, exc |-> "date"]
        ELSE [stats |-> s6, exc |-> None]

\* Variant: the try block ends before the date-range query.
CatchesBeforeDateRange(exc) == exc # "date"

\* The exceptions "except Exception as exc" catches: all that a query raises.
Catches(exc) == TRUE

\* get_column_stats: the stats dict it returns, or the exception it lets out.
get_column_stats(t, o) ==
    LET b == StatsBody(t, o) IN
    IF b.exc = None THEN [raised |-> None, stats |-> b.stats]
    ELSE IF Catches(b.exc)
    THEN [raised |-> None, stats |-> b.stats @@ ("error" :> b.exc)]
    ELSE [raised |-> b.exc, stats |-> EmptyDict]

(***************************************************************************)
(* Grades: quality_analyzer._score_to_grade                                *)
(***************************************************************************)
Grades == <<"F", "D", "C-", "C", "C+", "B-", "B", "B+", "A-", "A", "A+">>

\* Variant: the lower bounds are exclusive.
_score_to_grade_exclusive(num, den) ==
    IF num > Pct(95) * den THEN "A+"
    ELSE IF num > Pct(90) * den THEN "A"
    ELSE IF num > Pct(85) * den THEN "A-"
    ELSE IF num > Pct(80) * den THEN "B+"
    ELSE IF num > Pct(75) * den THEN "B"
    ELSE IF num > Pct(70) * den THEN "B-"
    ELSE IF num > Pct(65) * den THEN "C+"
    ELSE IF num > Pct(60) * den THEN "C"
    ELSE IF num > Pct(55) * den THEN "C-"
    ELSE IF num > Pct(50) * den THEN "D"
    ELSE "F"

\* The float score num / den (hundredths) against the thresholds in the
\* order the code tests them.
_score_to_grade(num, den) ==
    IF num >= Pct(95) * den THEN "A+"
    ELSE IF num >= Pct(90) * den THEN "A"
    ELSE IF num >= Pct(85) * den THEN "A-"
    ELSE IF num >= Pct(80) * den THEN "B+"
    ELSE IF num >= Pct(75) * den THEN "B"
    ELSE IF num >= Pct(70) * den THEN "B-"
    ELSE IF num >= Pct(65) * den THEN "C+"
    ELSE IF num >= Pct(60) * den THEN "C"
    ELSE IF num >= Pct(55) * den THEN "C-"
    ELSE IF num >= Pct(50) * den THEN "D"
    ELSE "F"

\* Position of a grade on the scale, F lowest.
Rank(g) == CHOOSE i \in DOMAIN Grades : Grades[i] = g

Grade ==
    /\ grade = None
    /\ grade' = _score_to_grade(score, 1)
    /\ UNCHANGED <<guardVars, score, statsVars, analysisVars, overviewVars, sessionVars>>

(***************************************************************************)
(* Inputs of the statistics engine                                         *)
(***************************************************************************)
Max2(a, b) == IF a > b THEN a ELSE b

RowCounts == (0 .. MaxSmallRows) \cup {TieRows} \cup (BigRows .. BigRows + BigSpan)

\* NULLs of a column of a table with total rows.
NullChoices(total) ==
    (0 .. Min2(MaxGap, total)) \cup (Max2(0, total - MaxGap) .. total)

\* COUNT(DISTINCT col) of a column with non_null values: none without
\* values, otherwise between 1 and their number.
DistinctChoices(non_null) ==
    IF non_null = 0 THEN {0}
    ELSE (1 .. Min2(MaxGap + 1, non_null)) \cup (Max2(1, non_null - MaxGap) .. non_null)

NotCalled == [called |-> FALSE, fail |-> None, std_fails |-> FALSE,
              raised |-> None, stats |-> EmptyDict]

GetColumnStats ==
    /\ ~st_out.called
    /\ \E o \in Oracles(st_in) :
         LET r == get_column_stats(st_in, o) IN
         st_out' = [called |-> TRUE, fail |-> o.fail, std_fails |-> o.std_fails,
                    raised |-> r.raised, stats |-> r.stats]
    /\ UNCHANGED <<guardVars, gradeVars, st_in, analysisVars, overviewVars, sessionVars>>

(***************************************************************************)
(* The quality analyzer: quality_analyzer.analyze_table_quality            *)
(***************************************************************************)
\* Column names by position; one of them contains "price".
ColumnNames == <<"id", "unit_price", "updated_at", "note", "qty">>

\* "price" in col_name.lower()
IsPriceName(name) == name = "unit_price"

ColumnMeta(i) ==
    [column_name : {ColumnNames[i]}, data_type : DataTypes,
     is_primary_key : BOOLEAN, is_nullable : BOOLEAN]

\* Position of a named column in the metadata list.
IndexOf(cols, name) == CHOOSE i \in DOMAIN cols : cols[i].column_name = name

\* pk_cols = [c for c in columns if c.get("is_primary_key")], as names
PkColNames(cols) ==
    LET pk == SelectSeq(cols, LAMBDA c : c.is_primary_key)
    IN  [i \in DOMAIN pk |-> pk[i].column_name]

\* Variant: the matching columns are taken last first.
DateColNamesLastFirst(cols) ==
    LET dc == SelectSeq(cols, LAMBDA c : IsDateType(c.data_type))
    IN  [i \in DOMAIN dc |-> dc[Len(dc) + 1 - i].column_name]

\* date_cols, as names
DateColNames(cols) ==
    LET dc == SelectSeq(cols, LAMBDA c : IsDateType(c.data_type))
    IN  [i \in DOMAIN dc |-> dc[i].column_name]

\* Variant: the issue carries an empty message.
IssueWithoutMessage(sev, cols, msg) == [severity |-> sev, column |-> cols, message |-> ""]

\* An issue: column holds the names the field carries (<< >> is None, two
\* or more are joined by ", "), message tells which message it is.
Issue(sev, cols, msg) == [severity |-> sev, column |-> cols, message |-> msg]

\* Variant: the medium issue is raised up to and including 80 %.
CompletenessIssuesUpTo80(col, col_stats) ==
    LET completeness == Get(col_stats, "completeness_pct", Pct(100)) IN
    IF completeness < Pct(50) /\ ~col.is_nullable
    THEN <<Issue("high", <<col.column_name>>, "NULL values in a NOT NULL column")>>
    ELSE IF completeness <= Pct(80)
    THEN <<Issue("medium", <<col.column_name>>, "Low completeness")>>
    ELSE << >>

\* The completeness branch of one column: the issues and highlights it adds.
CompletenessIssues(col, col_stats) ==
    LET completeness == Get(col_stats, "completeness_pct", Pct(100)) IN
    IF completeness < Pct(50) /\ ~col.is_nullable
    THEN <<Issue("high", <<col.column_name>>, "NULL values in a NOT NULL column")>>
    ELSE IF completeness < Pct(80)
    THEN <<Issue("medium", <<col.column_name>>, "Low completeness")>>
    ELSE << >>

\* Variant: only a measured completeness earns the highlight.
CompletenessHighlightsMeasuredOnly(col, col_stats) ==
    IF Has(col_stats, "completeness_pct")
          /\ col_stats["completeness_pct"] = Pct(100) /\ ~col.is_nullable
    THEN <<[column |-> <<col.column_name>>, text |-> "100% complete"]>>
    ELSE << >>

CompletenessHighlights(col, col_stats) ==
    LET completeness == Get(col_stats, "completeness_pct", Pct(100)) IN
    IF /\ ~(completeness < Pct(50) /\ ~col.is_nullable)
       /\ ~(completeness < Pct(80))
       /\ completeness = Pct(100) /\ ~col.is_nullable
    THEN <<[column |-> <<col.column_name>>, text |-> "100% complete"]>>
    ELSE << >>

\* Variant: every primary-key column is checked on its own, composite or not.
UniquenessIssuesAnyPk(col, col_stats, pk_cols_total) ==
    IF /\ Has(col_stats, "uniqueness_pct")
       /\ col.is_primary_key
       /\ col_stats["uniqueness_pct"] < Pct(100)
    THEN <<Issue("critical", <<col.column_name>>, "PRIMARY KEY has duplicate values")>>
    ELSE << >>

\* Variant: the duplicates are flagged below 50 % only.
UniquenessIssuesBelowHalf(col, col_stats, pk_cols_total) ==
    IF /\ Has(col_stats, "uniqueness_pct")
       /\ col.is_primary_key /\ pk_cols_total = 1
       /\ col_stats["uniqueness_pct"] < Pct(50)
    THEN <<Issue("critical", <<col.column_name>>, "PRIMARY KEY has duplicate values")>>
    ELSE << >>

\* The uniqueness branch: a critical issue for a single-column primary key
\* with duplicates.
UniquenessIssues(col, col_stats, pk_cols_total) ==
    IF /\ Has(col_stats, "uniqueness_pct")
       /\ col.is_primary_key /\ pk_cols_total = 1
       /\ col_stats["uniqueness_pct"] < Pct(100)
    THEN <<Issue("critical", <<col.column_name>>, "PRIMARY KEY has duplicate values")>>
    ELSE << >>

\* uniqueness_score and uniqueness_label of col_metrics.
UniquenessMetrics(col, col_stats, pk_cols_total) ==
    IF ~Has(col_stats, "uniqueness_pct") THEN EmptyDict
    ELSE LET u == col_stats["uniqueness_pct"] IN
         ("uniqueness_score" :> u) @@
         (IF col.is_primary_key /\ pk_cols_total = 1 /\ u < Pct(100) THEN EmptyDict
          ELSE IF u = Pct(100) /\ Get(col_stats, "distinct_count", 0) > 1
          THEN ("uniqueness_label" :> "fully_unique")
          ELSE IF u < Pct(5) THEN ("uniqueness_label" :> "low_cardinality")
          ELSE EmptyDict)

HasRange(col_stats) ==
    Has(col_stats, "min") /\ Has(col_stats, "max") /\ Has(col_stats, "avg")

\* The price branch: negative values in a column named like a price.
PriceIssues(col, col_stats) ==
    IF /\ HasRange(col_stats)
       /\ col_stats["max"] > 0 /\ col_stats["min"] < 0
       /\ IsPriceName(col.column_name)
    THEN <<Issue("high", <<col.column_name>>, "Negative values in price column")>>
    ELSE << >>

\* col_metrics of one column.
ColMetrics(col, col_stats, pk_cols_total) ==
    ("completeness_score" :> Get(col_stats, "completeness_pct", Pct(100)))
    @@ UniquenessMetrics(col, col_stats, pk_cols_total)
    @@ (IF HasRange(col_stats)
        THEN ("range_summary" :> <<col_stats["min"], col_stats["max"], col_stats["avg"]>>)
        ELSE EmptyDict)
    @@ col_stats
    @@ ("column_name" :> col.column_name) @@ ("data_type" :> col.data_type)
    @@ ("is_primary_key" :> col.is_primary_key) @@ ("is_nullable" :> col.is_nullable)

\* What the column facts can be in a table whose primary key is composite
\* and has a repeated combination: the column repeats a value or a NULL.
ConsistentWithDups(col, nulls, distinct) ==
    (col.is_primary_key /\ db.dup_combos > 0) =>
        (distinct < db.total - nulls \/ nulls >= 2)

\* What get_column_stats can meet while a table is analysed: as Oracles, but
\* the standard-deviation query works, and negative values occur only in
\* the column named like a price.
AnalysisOracles(col, t) ==
    {o \in Oracles(t) :
        /\ ~o.std_fails
        /\ o.agg # None =>
             IF IsPriceName(col.column_name) THEN o.agg[2] > 0 ELSE o.agg[1] > 0}

\* The handler of "except Exception as e" around connector.get_column_stats.
StatsCallCatches(exc) == TRUE

\* Variant: the composite-key query runs outside any try block.
CompositeUncaught(exc) == FALSE

\* The handler of "except Exception" around the composite-key query.
CompositeCatches(exc) == TRUE

\* The handlers of "except Exception" in _compute_freshness.
FreshnessCatches(exc) == TRUE

\* The analysed table.
TableName == "orders"

\* config.schema of the connection: not set.
ConfigSchema == None

\* An identifier as it stands in the text of a query: the name, whether it
\* is wrapped in double quotes, whether it was upper-cased.
Ident(name, quoted, upper) == [name |-> name, quoted |-> quoted, upper |-> upper]

\* BaseConnector._quote; no connector overrides it.
_quote(k, name) == Ident(name, TRUE, FALSE)

\* BaseConnector._qualified_table
BaseQualifiedTable(k, table, sch) ==
    IF sch # None THEN <<_quote(k, sch), _quote(k, table)>>
    ELSE <<_quote(k, table)>>

\* SnowflakeConnector._qualified_table: unquoted and upper-cased, always
\* qualified (schema or config.schema or "PUBLIC").
SnowflakeQualifiedTable(table, sch) ==
    LET s == IF sch # None THEN sch
             ELSE IF ConfigSchema # None THEN ConfigSchema ELSE "PUBLIC"
    IN  <<Ident(s, FALSE, TRUE), Ident(table, FALSE, TRUE)>>

_qualified_table(k, table, sch) ==
    IF k = "snowflake" THEN SnowflakeQualifiedTable(table, sch)
    ELSE BaseQualifiedTable(k, table, sch)

\* The schema get_column_stats receives from the analyzer: the call passes
\* table, column and type only, so the parameter takes its default.
StatsCallSchema(sch) == None

\* The references of the queries get_column_stats sends.
StatsQuery(k, table, column, sch) ==
    [step |-> "stats", table |-> _qualified_table(k, table, sch),
     cols |-> {_quote(k, column)}]

\* The composite-key query: f'"{c}"' and f'"{table_name}"' in the text.
CompositeQuery(table, pk) ==
    [step |-> "composite", table |-> <<Ident(table, TRUE, FALSE)>>,
     cols |-> {Ident(pk[i], TRUE, FALSE) : i \in DOMAIN pk}]

\* The MAX query of _compute_freshness, written the same way.
FreshnessQuery(table, column) ==
    [step |-> "freshness", table |-> <<Ident(table, TRUE, FALSE)>>,
     cols |-> {Ident(column, TRUE, FALSE)}]

NewMetrics ==
    [column_metrics |-> EmptyDict, table_level |-> EmptyDict,
     overall_score |-> 0, grade |-> "F", issues |-> << >>, highlights |-> << >>]

\* One pass of the "for col in columns" loop.
AnalyzeColumn ==
    /\ pc = "columns"
    /\ Len(scores) < Len(columns)
    /\ LET col == columns[Len(scores) + 1]
           pk_cols_total == Len(PkColNames(columns))
       IN \E n \in NullChoices(db.total) : \E d \in DistinctChoices(db.total - n) :
          /\ ConsistentWithDups(col, n, d)
          /\ LET t == [total |-> db.total, nulls |-> n, distinct |-> d,
                       dtype |-> col.data_type]
             IN \E o \in AnalysisOracles(col, t) :
                LET r == get_column_stats(t, o)
                    col_stats == IF r.raised = None THEN r.stats
                                 ELSE ("error" :> r.raised)
                IN  IF r.raised # None /\ ~StatsCallCatches(r.raised)
                    THEN /\ pc' = "raised"
                         /\ UNCHANGED <<metrics, scores, total_rows>>
                    ELSE /\ metrics' =
                              [metrics EXCEPT
                                 !.issues = @ \o CompletenessIssues(col, col_stats)
                                              \o UniquenessIssues(col, col_stats, pk_cols_total)
                                              \o PriceIssues(col, col_stats),
                                 !.highlights = @ \o CompletenessHighlights(col, col_stats),
                                 !.column_metrics =
                                    (col.column_name :>
                                        ColMetrics(col, col_stats, pk_cols_total)) @@ @]
                         /\ scores' = Append(scores,
                                             Get(col_stats, "completeness_pct", Pct(100)))
                         /\ total_rows' = IF Get(col_stats, "total_rows", 0) # 0
                                          THEN col_stats["total_rows"] ELSE total_rows
                         /\ pc' = pc
          /\ issued' = issued \cup
                {StatsQuery(kind, TableName, col.column_name, StatsCallSchema(schema))}
    /\ UNCHANGED <<guardVars, gradeVars, statsVars, overviewVars, sessionVars, columns, db, faults,
                   latest, schema>>

\* What the composite-key query does: it raises, or counts the repeated
\* combinations of the table.
CompositeOutcomes == {"raises", "counts"}

\* The query is issued for a composite key only.
CompositeChoices(cols) ==
    IF Len(PkColNames(cols)) > 1 THEN CompositeOutcomes ELSE {"not issued"}

\* The primary-key section: issues, highlights and the score contribution.
PkIssues(cols, outcome) ==
    LET pk == PkColNames(cols) IN
    IF Len(pk) = 0
    THEN <<Issue("medium", << >>, "Table has no primary key")>>
    ELSE IF Len(pk) > 1 /\ outcome = "counts" /\ db.dup_combos > 0
    THEN <<Issue("critical", pk, "Composite PRIMARY KEY has duplicate combinations")>>
    ELSE << >>

PkHighlights(cols, outcome) ==
    LET pk == PkColNames(cols) IN
    IF Len(pk) > 1 /\ outcome = "counts" /\ db.dup_combos = 0
    THEN <<[column |-> pk, text |-> "all combinations unique"]>>
    ELSE << >>

\* Variant: the key contributes 100 whether there is one or not.
PkScoreFlat(cols) == 100 * 100

\* scores.append(70) without a primary key, scores.append(100) with one.
PkScore(cols) == IF Len(PkColNames(cols)) = 0 THEN 70 * 100 ELSE 100 * 100

\* What MAX(date column) can be: the query raises, the value is NULL (or
\* no row comes back), the value matches none of the formats, or it is a
\* date so many days old.  Ages holds a day on each side of every band
\* edge; db.ages tells which of them the analysed table can hold.
Ages == {-1, 0, 1, 2, 7, 8, 30, 31, 90, 91, 180, 181, 365, 366, 400}

CoarseAges == {0, 400}

FreshnessOutcomes ==
    {[what |-> "raises", age |-> 0], [what |-> "null", age |-> 0],
     [what |-> "unparseable", age |-> 0]}
    \cup {[what |-> "date", age |-> a] : a \in db.ages}

\* No MAX query was issued.
NoFreshness == [what |-> "not issued", age |-> 0]

\* The query is issued when a column has a temporal type.
FreshnessChoices(cols) ==
    IF Len(DateColNames(cols)) > 0 THEN FreshnessOutcomes
    ELSE {NoFreshness}

\* Variant: the band edges are exclusive.
_compute_freshness_exclusive(f) ==
    IF f.what = "raises" THEN 75
    ELSE IF f.what = "null" THEN 50
    ELSE IF f.what = "unparseable" THEN 75
    ELSE IF f.age < 1 THEN 100
    ELSE IF f.age < 7 THEN 90
    ELSE IF f.age < 30 THEN 80
    ELSE IF f.age < 90 THEN 65
    ELSE IF f.age < 180 THEN 50
    ELSE IF f.age < 365 THEN 35
    ELSE 20

\* _compute_freshness, in points.
_compute_freshness(f) ==
    IF f.what = "raises" THEN 75
    ELSE IF f.what = "null" THEN 50
    ELSE IF f.what = "unparseable" THEN 75
    ELSE IF f.age <= 1 THEN 100
    ELSE IF f.age <= 7 THEN 90
    ELSE IF f.age <= 30 THEN 80
    ELSE IF f.age <= 90 THEN 65
    ELSE IF f.age <= 180 THEN 50
    ELSE IF f.age <= 365 THEN 35
    ELSE 20

FreshnessIssues(cols, f) ==
    LET dc == DateColNames(cols) IN
    IF Len(dc) > 0 /\ _compute_freshness(f) < 50
    THEN <<Issue("medium", <<dc[1]>>, "Data may be stale")>>
    ELSE << >>

\* A float is a Python None when << >>, else the one value held.
TableLevel(cols, f) ==
    LET pk == PkColNames(cols)
        dc == DateColNames(cols)
    IN  ("row_count" :> total_rows) @@ ("has_primary_key" :> (Len(pk) > 0))
        @@ ("primary_key_columns" :> pk)
        @@ (IF Len(dc) > 0
            THEN ("freshness_score" :> <<Pct(_compute_freshness(f))>>)
                 @@ ("freshness_column" :> dc[1])
            ELSE ("freshness_score" :> << >>))

RECURSIVE Sum(_)
Sum(seq) == IF seq = << >> THEN 0 ELSE Head(seq) + Sum(Tail(seq))

\* round(sum / count, 1), in hundredths; up decides the half-way case.
Round1(sum, count, up) ==
    LET q == sum \div (10 * count)
        r == sum % (10 * count)
    IN  IF 2 * r < 10 * count THEN 10 * q
        ELSE IF 2 * r > 10 * count THEN 10 * (q + 1)
        ELSE IF up THEN 10 * (q + 1) ELSE 10 * q

IsHalfWay1(sum, count) == 2 * (sum % (10 * count)) = 10 * count

severity_order(sev) ==
    CASE sev = "critical" -> 0
      [] sev = "high" -> 1
      [] sev = "medium" -> 2
      [] sev = "low" -> 3
      [] OTHER -> 99

\* Variant: the list is returned as discovered.
IssuesAsDiscovered(issues) == issues

\* list.sort(key=severity_order): a stable sort on the rank.
SortIssues(issues) ==
    SelectSeq(issues, LAMBDA i : severity_order(i.severity) = 0)
    \o SelectSeq(issues, LAMBDA i : severity_order(i.severity) = 1)
    \o SelectSeq(issues, LAMBDA i : severity_order(i.severity) = 2)
    \o SelectSeq(issues, LAMBDA i : severity_order(i.severity) = 3)
    \o SelectSeq(issues, LAMBDA i : severity_order(i.severity) = 99)

\* The table-level section, the freshness section, the overall score and
\* the final sort, after the column loop has ended.
AnalyzeTable ==
    /\ pc = "columns"
    /\ Len(scores) = Len(columns)
    /\ \E c \in CompositeChoices(columns), f \in FreshnessChoices(columns),
          up \in BOOLEAN :
         LET pk == PkColNames(columns)
             dc == DateColNames(columns)
             c_raises == c = "raises"
             f_raises == f.what = "raises"
             all_scores == (scores \o <<PkScore(columns)>>)
                           \o (IF Len(dc) > 0 THEN <<Pct(_compute_freshness(f))>>
                               ELSE << >>)
         IN  /\ faults' = (IF c_raises THEN {"composite"} ELSE {})
                          \cup (IF f_raises THEN {"freshness"} ELSE {})
             /\ latest' = f
             /\ issued' = issued
                  \cup (IF Len(pk) > 1 THEN {CompositeQuery(TableName, pk)} ELSE {})
                  \cup (IF Len(dc) > 0 /\ ~(c_raises /\ ~CompositeCatches("composite"))
                        THEN {FreshnessQuery(TableName, dc[1])} ELSE {})
             /\ up => IsHalfWay1(Sum(all_scores), Len(all_scores))
             /\ IF \/ c_raises /\ ~CompositeCatches("composite")
                   \/ f_raises /\ ~FreshnessCatches("freshness")
                THEN /\ pc' = "raised"
                     /\ UNCHANGED <<metrics, scores>>
                ELSE /\ scores' = all_scores
                     /\ metrics' =
                          [metrics EXCEPT
                             !.table_level = TableLevel(columns, f),
                             !.issues = SortIssues(@ \o PkIssues(columns, c)
                                                     \o FreshnessIssues(columns, f)),
                             !.highlights = @ \o PkHighlights(columns, c),
                             !.overall_score =
                                Round1(Sum(all_scores), Len(all_scores), up),
                             !.grade =
                                _score_to_grade(Sum(all_scores), Len(all_scores))]
                     /\ pc' = "done"
    /\ UNCHANGED <<guardVars, gradeVars, statsVars, overviewVars, sessionVars, columns, db, total_rows,
                   schema>>

(***************************************************************************)
(* The database overview: compute_database_quality_overview                *)
(***************************************************************************)
MaxTables == 3          \* table reports handed to the overview

TableNames == <<"orders", "customers", "items", "events">>

\* overall_score values of the reports drawn (hundredths, one decimal each).
ScoreChoices == {4000, 5990, 6000, 7200, 7500, 8990, 9000, 9500}

\* Issue lists of the reports drawn, each sorted by severity as
\* analyze_table_quality leaves them.
IssueChoices ==
    LET c == Issue("critical", <<"id">>, "PRIMARY KEY has duplicate values")
        h == Issue("high", <<"unit_price">>, "Negative values in price column")
        n == Issue("high", <<"note">>, "NULL values in a NOT NULL column")
        m == Issue("medium", << >>, "Table has no primary key")
    IN  {<< >>, <<c, h>>, <<h, n, m>>, <<c, n>>}

TableReports(i) ==
    [table_name : {TableNames[i]}, overall_score : ScoreChoices, issues : IssueChoices]

\* The lists of at most n reports, the i-th on the i-th table.
RECURSIVE ReportLists(_)
ReportLists(n) ==
    IF n = 0 THEN {<< >>}
    ELSE LET shorter == ReportLists(n - 1)
         IN  shorter \cup {Append(l, r) : l \in {x \in shorter : Len(x) = n - 1},
                                          r \in TableReports(n)}

\* {**issue, "table": t["table_name"]}
Tagged(issue, name) ==
    [severity |-> issue.severity, column |-> issue.column,
     message |-> issue.message, table |-> name]

\* all_issues: the issues of every report in turn, each tagged with its table.
RECURSIVE AllIssues(_)
AllIssues(tm) ==
    IF tm = << >> THEN << >>
    ELSE LET t == Head(tm)
         IN  [i \in DOMAIN t.issues |-> Tagged(t.issues[i], t.table_name)]
             \o AllIssues(Tail(tm))

\* seq[:n]
Prefix(seq, n) == SubSeq(seq, 1, Min2(n, Len(seq)))

\* max(seq, key=overall_score): the first element no later one exceeds.
RECURSIVE PyMax(_, _)
PyMax(best, rest) ==
    IF rest = << >> THEN best
    ELSE IF Head(rest).overall_score > best.overall_score
    THEN PyMax(Head(rest), Tail(rest))
    ELSE PyMax(best, Tail(rest))

\* min(seq, key=overall_score): the first element no later one undercuts.
RECURSIVE PyMin(_, _)
PyMin(best, rest) ==
    IF rest = << >> THEN best
    ELSE IF Head(rest).overall_score < best.overall_score
    THEN PyMin(Head(rest), Tail(rest))
    ELSE PyMin(best, Tail(rest))

\* len([s for s in scores if lo <= s < hi])
CountIn(tm, lo, hi) ==
    Len(SelectSeq(tm, LAMBDA t : lo <= t.overall_score /\ t.overall_score < hi))

\* Variant: the lists are concatenated in the order high, critical.
TopIssuesHighFirst(critical, high) == Prefix(high \o critical, 5)

\* (critical + high)[:5]
TopIssues(critical, high) == Prefix(critical \o high, 5)

\* Variant: the grade is taken of the rounded score.
DatabaseGradeOfRounded(sum, count, up) == _score_to_grade(Round1(sum, count, up), 1)

\* _score_to_grade(avg_score): the grade of the mean as computed, unrounded.
DatabaseGrade(sum, count, up) == _score_to_grade(sum, count)

\* Variant: the band of fair scores starts at 65.
ScoreDistributionFairFrom65(tm) ==
    [excellent |-> CountIn(tm, Pct(90), Pct(101)),
     good |-> CountIn(tm, Pct(75), Pct(90)),
     fair |-> CountIn(tm, Pct(65), Pct(75)),
     poor |-> CountIn(tm, -1, Pct(60))]

ScoreDistribution(tm) ==
    [excellent |-> CountIn(tm, Pct(90), Pct(101)),
     good |-> CountIn(tm, Pct(75), Pct(90)),
     fair |-> CountIn(tm, Pct(60), Pct(75)),
     poor |-> CountIn(tm, -1, Pct(60))]

\* compute_database_quality_overview; up decides a half-way rounding.
compute_database_quality_overview(tm, up) ==
    IF tm = << >> THEN EmptyDict
    ELSE LET sum == Sum([i \in DOMAIN tm |-> tm[i].overall_score])
             all_issues == AllIssues(tm)
             critical == SelectSeq(all_issues, LAMBDA i : i.severity = "critical")
             high == SelectSeq(all_issues, LAMBDA i : i.severity = "high")
         IN  [database_score |-> Round1(sum, Len(tm), up),
              database_grade |-> DatabaseGrade(sum, Len(tm), up),
              total_tables |-> Len(tm),
              tables_analyzed |-> Len(tm),
              critical_issues |-> Len(critical),
              high_issues |-> Len(high),
              top_issues |-> TopIssues(critical, high),
              best_table |-> PyMax(Head(tm), Tail(tm)).table_name,
              worst_table |-> PyMin(Head(tm), Tail(tm)).table_name,
              score_distribution |-> ScoreDistribution(tm)]

NoOverview == [returned |-> FALSE, value |-> EmptyDict]

ComputeOverview ==
    /\ ~overview.returned
    /\ \E up \in BOOLEAN :
         /\ up => (table_metrics # << >> /\
                   IsHalfWay1(Sum([i \in DOMAIN table_metrics |->
                                     table_metrics[i].overall_score]),
                              Len(table_metrics)))
         /\ overview' =
              [returned |-> TRUE,
               value |-> compute_database_quality_overview(table_metrics, up)]
    /\ UNCHANGED <<guardVars, gradeVars, statsVars, analysisVars, table_metrics, sessionVars>>

(***************************************************************************)
(* The request handlers of main.py, on the one session "default"           *)
(***************************************************************************)
MaxSessionTables == 2   \* tables the connected database can hold
MaxChats == 1           \* chat requests followed

\* history[-20:]
HistoryCap == 20

SessionTableNames == SubSeq(TableNames, 1, MaxSessionTables)

\* The column lists a table of the database can have.
ColumnSets == {{"id"}, {"id", "note"}}

\* What the database can hold: its tables, each with its columns.
Catalogs ==
    UNION {[S -> ColumnSets] :
             S \in SUBSET {SessionTableNames[i] : i \in 1 .. MaxSessionTables}}

\* connector.get_tables(), as table names in the order of the catalog
ListTables(cat) == SelectSeq(SessionTableNames, LAMBDA n : n \in DOMAIN cat)

Restrict(f, S) == [x \in S |-> f[x]]

\* No entry for the session in _sessions.
NoSession ==
    [connected |-> FALSE, tables |-> << >>, enriched_tables |-> EmptyDict,
     quality_data |-> EmptyDict, quality_overview |-> EmptyDict]

\* _schema_snapshots.get(f"{sid}_initial", {}) when there is no entry: no
\* tables, no columns.
NoSnapshot == [tables |-> << >>, columns |-> EmptyDict]

\* What a handler answered: the status of the response, whether the
\* connector it opened still holds a connection when it returns, and, for
\* analyze-quality, the tables aimed at and those whose column listing
\* failed, for schema-diff, the schema it read and the changes it reported.
Reply(h, status, live) ==
    [handler |-> h, status |-> status, live |-> live, targets |-> {},
     bad |-> {}, seen |-> NoSnapshot, changes |-> {}]

NoReply == Reply(None, 0, FALSE)

\* BaseConnector.disconnect: close() is tried, then self._conn = None, so
\* the connector holds no connection afterwards whatever it held before.
AfterDisconnect(live) == FALSE

\* _open_connector: connect() raises, or the connector comes back connected.
OpenOutcomes == {"refused", "opened"}

\* The reply of a handler that found no session, or whose _open_connector
\* raised from connect(): no connection is held then.
NotOpened(h, open) ==
    IF ~_sessions.connected THEN Reply(h, 404, FALSE) ELSE Reply(h, 500, FALSE)

\* POST /connect: the constructor of the configuration or get_connector
\* raises, connect() raises, get_schemas() or get_tables() raises, or the
\* tables are listed (get_columns may fail on some of them).
ConnectOutcomes == {"rejected", "refused", "listing fails", "listed"}

ConnectHandler ==
    /\ \E out \in ConnectOutcomes :
         IF out = "listed"
         THEN \E unlisted \in SUBSET DOMAIN catalog :
                LET tables == ListTables(catalog)
                    all_columns == Restrict(catalog, DOMAIN catalog \ unlisted)
                    snap == [tables |-> tables, columns |-> all_columns]
                IN  /\ _sessions' =
                         [connected |-> TRUE, tables |-> tables,
                          enriched_tables |-> EmptyDict, quality_data |-> EmptyDict,
                          quality_overview |-> EmptyDict]
                    /\ _schema_snapshots' = snap
                    /\ _chat_history' = 0
                    /\ baseline' = snap
                    /\ reply' = Reply("connect", 200, AfterDisconnect(TRUE))
         ELSE /\ reply' = Reply("connect", 400, out = "listing fails")
              /\ UNCHANGED <<_sessions, _schema_snapshots, _chat_history, baseline>>
    /\ UNCHANGED <<catalog, otherVars>>

\* GET /table/{session_id}/{table_name}
GetTableDetail ==
    /\ \E open \in OpenOutcomes, body \in {"raises", "returns"} :
         reply' = IF ~_sessions.connected \/ open = "refused"
                  THEN NotOpened("get_table_detail", open)
                  ELSE IF body = "raises"
                  THEN Reply("get_table_detail", 500, AfterDisconnect(TRUE))
                  ELSE Reply("get_table_detail", 200, AfterDisconnect(TRUE))
    /\ UNCHANGED <<catalog, _sessions, _schema_snapshots, _chat_history, baseline,
                   otherVars>>

\* The reports analyze_table_quality can hand back for a table.
SessionScores == {6000, 9000}

SessionReports(name) ==
    [table_name : {name}, overall_score : SessionScores, issues : {<< >>}]

\* targets = [t for t in sess["tables"] if not table_name or t == table_name]
Targets(tables, table_name) ==
    SelectSeq(tables, LAMBDA t : table_name = None \/ t = table_name)

Range(seq) == {seq[i] : i \in DOMAIN seq}

\* POST /analyze-quality/{session_id}: bad holds the targets on which
\* connector.get_columns raises.
AnalyzeQuality ==
    /\ \E table_name \in {None} \cup Range(SessionTableNames), open \in OpenOutcomes :
         IF ~_sessions.connected \/ open = "refused"
         THEN /\ reply' = NotOpened("analyze_quality", open)
              /\ UNCHANGED _sessions
         ELSE LET targets == Targets(_sessions.tables, table_name) IN
              \E bad \in SUBSET Range(targets) :
                IF bad # {}
                THEN /\ reply' = [Reply("analyze_quality", 500, AfterDisconnect(TRUE))
                                    EXCEPT !.targets = Range(targets), !.bad = bad]
                     /\ UNCHANGED _sessions
                ELSE \E results \in [Range(targets) -> UNION {SessionReports(n) : n \in Range(targets)}],
                        up \in BOOLEAN :
                       LET values == [i \in DOMAIN targets |-> results[targets[i]]] IN
                       /\ \A n \in Range(targets) : results[n].table_name = n
                       /\ up => (values # << >> /\
                                 IsHalfWay1(Sum([i \in DOMAIN values |->
                                                   values[i].overall_score]),
                                            Len(values)))
                       /\ _sessions' =
                            [_sessions EXCEPT
                               !.quality_data = results @@ @,
                               !.quality_overview =
                                  compute_database_quality_overview(values, up)]
                       /\ reply' = [Reply("analyze_quality", 200, AfterDisconnect(TRUE))
                                      EXCEPT !.targets = Range(targets)]
    /\ UNCHANGED <<catalog, _schema_snapshots, _chat_history, baseline, otherVars>>

\* POST /enrich: each table is enriched inside its own try.
Enrich ==
    /\ \E table_name \in {None} \cup Range(SessionTableNames), open \in OpenOutcomes :
         IF ~_sessions.connected \/ open = "refused"
         THEN /\ reply' = NotOpened("enrich", open)
              /\ UNCHANGED _sessions
         ELSE LET targets == Range(Targets(_sessions.tables, table_name)) IN
              \E outcome \in [targets -> {"enriched", "error"}] :
                /\ _sessions' = [_sessions EXCEPT !.enriched_tables = outcome @@ @]
                /\ reply' = Reply("enrich", 200, AfterDisconnect(TRUE))
    /\ UNCHANGED <<catalog, _schema_snapshots, _chat_history, baseline, otherVars>>

\* POST /chat: the schema context is built from the live columns or, when
\* that fails, from the session; then the model answers or raises.
Chat ==
    /\ _chat_history < 2 * MaxChats
    /\ \E open \in OpenOutcomes, body \in {"raises", "returns"},
          answer \in {"raises", "returns"} :
         IF ~_sessions.connected \/ open = "refused"
         THEN /\ reply' = NotOpened("chat", open)
              /\ UNCHANGED _chat_history
         ELSE IF answer = "raises"
         THEN /\ reply' = Reply("chat", 500, AfterDisconnect(TRUE))
              /\ UNCHANGED _chat_history
         ELSE /\ reply' = Reply("chat", 200, AfterDisconnect(TRUE))
              /\ _chat_history' = Min2(_chat_history + 2, HistoryCap)
    /\ UNCHANGED <<catalog, _sessions, _schema_snapshots, baseline, otherVars>>

\* re.match(r"^\s*(SELECT|WITH)\b", clean, re.IGNORECASE) on the stripped text
IsSelect(sql) ==
    /\ sql.prefix \in {"", "ws"}
    /\ Upper(sql) \in {"SELECT", "WITH"}

\* POST /execute-sql
ExecuteSql ==
    /\ \E permitted \in {IsSelect(sql) : sql \in Statements}, open \in OpenOutcomes,
          rows \in {"raises", "returns"} :
         reply' = IF ~_sessions.connected \/ open = "refused"
                  THEN NotOpened("execute_sql", open)
                  ELSE IF ~permitted
                  THEN Reply("execute_sql", 400, AfterDisconnect(TRUE))
                  ELSE Reply("execute_sql", 200, AfterDisconnect(TRUE))
    /\ UNCHANGED <<catalog, _sessions, _schema_snapshots, _chat_history, baseline,
                   otherVars>>

Change(type, table, column, severity) ==
    [type |-> type, table |-> table, column |-> column, severity |-> severity]

\* The changes schema_diff lists between an old and a new snapshot.
Changes(old, new) ==
    LET old_tables == Range(old.tables)
        new_tables == Range(new.tables)
        oc(t) == IF Has(old.columns, t) THEN old.columns[t] ELSE {}
        nc(t) == IF Has(new.columns, t) THEN new.columns[t] ELSE {}
    IN  {Change("table_added", t, None, "info") : t \in new_tables \ old_tables}
        \cup {Change("table_dropped", t, None, "critical") : t \in old_tables \ new_tables}
        \cup UNION {{Change("column_added", t, c, "info") : c \in nc(t) \ oc(t)}
                      : t \in old_tables \cap new_tables}
        \cup UNION {{Change("column_dropped", t, c, "high") : c \in oc(t) \ nc(t)}
                      : t \in old_tables \cap new_tables}

\* POST /schema-diff/{session_id}: the schema is read, compared with the
\* entry "{sid}_initial" of _schema_snapshots, and stored as that entry.
SchemaDiff ==
    /\ \E open \in OpenOutcomes, listing \in {"raises", "returns"} :
         IF ~_sessions.connected \/ open = "refused"
         THEN /\ reply' = NotOpened("schema_diff", open)
              /\ UNCHANGED _schema_snapshots
         ELSE IF listing = "raises"
         THEN /\ reply' = Reply("schema_diff", 500, AfterDisconnect(TRUE))
              /\ UNCHANGED _schema_snapshots
         ELSE \E unlisted \in SUBSET DOMAIN catalog :
                LET tables == ListTables(catalog)
                    all_cols == Restrict(catalog, DOMAIN catalog \ unlisted)
                    new == [tables |-> tables, columns |-> all_cols]
                    old_snap == _schema_snapshots
                IN  /\ reply' = [Reply("schema_diff", 200, AfterDisconnect(TRUE))
                                   EXCEPT !.seen = new,
                                          !.changes = Changes(old_snap, new)]
                    /\ _schema_snapshots' = new
    /\ UNCHANGED <<catalog, _sessions, _chat_history, baseline, otherVars>>

\* POST /export
ExportDocs ==
    /\ \E open \in OpenOutcomes, body \in {"raises", "returns"},
          file \in {"raises", "returns"} :
         reply' = IF ~_sessions.connected \/ open = "refused"
                  THEN NotOpened("export_docs", open)
                  ELSE IF body = "raises" \/ file = "raises"
                  THEN Reply("export_docs", 500, AfterDisconnect(TRUE))
                  ELSE Reply("export_docs", 200, AfterDisconnect(TRUE))
    /\ UNCHANGED <<catalog, _sessions, _schema_snapshots, _chat_history, baseline,
                   otherVars>>

\* DELETE /session/{session_id}
DeleteSession ==
    /\ _sessions' = NoSession
    /\ _chat_history' = 0
    /\ _schema_snapshots' = NoSnapshot
    /\ baseline' = NoSnapshot
    /\ reply' = Reply("delete_session", 200, FALSE)
    /\ UNCHANGED <<catalog, otherVars>>

\* The database is altered by its owners between two requests.
AlterSchema ==
    /\ catalog' \in Catalogs \ {catalog}
    /\ UNCHANGED <<_sessions, _schema_snapshots, _chat_history, baseline, reply,
                   otherVars>>

(***************************************************************************)
(* Specifications                                                          *)
(***************************************************************************)
IdleGuard ==
    /\ kind = "sqlite" /\ conn = TRUE /\ call = NoCall
    /\ built = [asked |-> "sqlite", raised |-> NoError, class |-> "SQLiteConnector"]
    /\ link = [called |-> TRUE, driver |-> "session", error |-> NoError]
IdleGrade == score = 0 /\ grade = None
IdleStats ==
    /\ st_in = [total |-> 0, nulls |-> 0, distinct |-> 0, dtype |-> "TEXT"]
    /\ st_out = NotCalled

IdleAnalysis ==
    /\ columns = << >> /\ db = [total |-> 0, dup_combos |-> 0, ages |-> {}]
    /\ pc = "idle" /\ metrics = NewMetrics /\ scores = << >>
    /\ total_rows = 0 /\ faults = {} /\ latest = NoFreshness
    /\ schema = None /\ issued = {}

IdleOverview == table_metrics = << >> /\ overview = NoOverview

IdleSession ==
    /\ catalog = EmptyDict /\ _sessions = NoSession /\ _schema_snapshots = NoSnapshot
    /\ _chat_history = 0 /\ baseline = NoSnapshot /\ reply = NoReply

\* The connector: none is built yet.
GuardInit ==
    /\ kind = None
    /\ conn = FALSE
    /\ call = NoCall
    /\ built = NotBuilt
    /\ link = NotConnecting
    /\ IdleGrade /\ IdleStats /\ IdleAnalysis /\ IdleOverview /\ IdleSession

GuardNext == GetConnector \/ Connect \/ Disconnect \/ Execute \/ Return

GuardSpec == GuardInit /\ [][GuardNext]_vars

\* The grade mapping on every score of [0, 100].
GradeInit ==
    /\ score \in 0 .. Pct(100)
    /\ grade = None
    /\ IdleGuard /\ IdleStats /\ IdleAnalysis /\ IdleOverview /\ IdleSession

GradeNext == Grade

GradeSpec == GradeInit /\ [][GradeNext]_vars

\* A connected connector of the given variant, no call in flight.
ConnectedAs(k) ==
    /\ kind = k /\ conn = TRUE /\ call = NoCall
    /\ built = [asked |-> k, raised |-> NoError, class |-> ConnectorClass[k]]
    /\ link = [called |-> TRUE, driver |-> "session", error |-> NoError]

\* The statistics engine on one column of one table, on every variant.
StatsInit ==
    /\ \E t \in RowCounts : \E n \in NullChoices(t) :
         \E d \in DistinctChoices(t - n) : \E ty \in DataTypes :
            st_in = [total |-> t, nulls |-> n, distinct |-> d, dtype |-> ty]
    /\ st_out = NotCalled
    /\ \E k \in Variants : ConnectedAs(k)
    /\ IdleGrade /\ IdleAnalysis /\ IdleOverview /\ IdleSession

StatsNext == GetColumnStats

StatsSpec == StatsInit /\ [][StatsNext]_vars

\* analyze_table_quality on one table: the state on entry to the column
\* loop, for every column list and every table the bounds allow.
Init ==
    /\ \E n \in 0 .. MaxCols :
         columns \in [1 .. n -> UNION {ColumnMeta(i) : i \in 1 .. n}]
    /\ \A i \in DOMAIN columns : columns[i] \in ColumnMeta(i)
    /\ \E t \in 0 .. MaxRows : \E dc \in 0 .. (t \div 2) :
         /\ dc > 0 => Len(PkColNames(columns)) > 1
         /\ db = [total |-> t, dup_combos |-> dc, ages |-> CoarseAges]
    /\ pc = "columns"
    /\ metrics = NewMetrics
    /\ scores = << >>
    /\ total_rows = 0
    /\ faults = {}
    /\ latest = NoFreshness
    /\ schema = None
    /\ issued = {}
    /\ IdleGuard /\ IdleGrade /\ IdleStats /\ IdleOverview /\ IdleSession

Next == AnalyzeColumn \/ AnalyzeTable

Spec == Init /\ [][Next]_vars

\* analyze_table_quality on a one-column table whose column can hold a date
\* of every age around the band edges of _compute_freshness.
FreshInit ==
    /\ \E c \in ColumnMeta(3) : columns = <<c>>
    /\ \E t \in 0 .. MaxRows : db = [total |-> t, dup_combos |-> 0, ages |-> Ages]
    /\ pc = "columns"
    /\ metrics = NewMetrics
    /\ scores = << >>
    /\ total_rows = 0
    /\ faults = {}
    /\ latest = NoFreshness
    /\ schema = None
    /\ issued = {}
    /\ IdleGuard /\ IdleGrade /\ IdleStats /\ IdleOverview /\ IdleSession

FreshNext == AnalyzeColumn \/ AnalyzeTable

\* analyze_table_quality on a one-column table of up to MaxSmallRows rows,
\* so that the column's completeness takes values on both sides of 50 and 80.
ColumnInit ==
    /\ \E c \in ColumnMeta(1) \cup ColumnMeta(2) : columns = <<c>>
    /\ \E t \in 0 .. MaxSmallRows :
         db = [total |-> t, dup_combos |-> 0, ages |-> CoarseAges]
    /\ pc = "columns"
    /\ metrics = NewMetrics
    /\ scores = << >>
    /\ total_rows = 0
    /\ faults = {}
    /\ latest = NoFreshness
    /\ schema = None
    /\ issued = {}
    /\ IdleGuard /\ IdleGrade /\ IdleStats /\ IdleOverview /\ IdleSession

ColumnNext == AnalyzeColumn \/ AnalyzeTable

ColumnSpec == ColumnInit /\ [][ColumnNext]_vars

FreshSpec == FreshInit /\ [][FreshNext]_vars

\* Schemas handed to analyze_table_quality.
SchemaChoices == {None, "analytics"}

\* analyze_table_quality on an empty table, on every variant of connector
\* and with and without a schema argument.
QueryInit ==
    /\ \E n \in 1 .. MaxCols :
         columns \in [1 .. n -> UNION {ColumnMeta(i) : i \in 1 .. n}]
    /\ \A i \in DOMAIN columns : columns[i] \in ColumnMeta(i)
    /\ db = [total |-> 0, dup_combos |-> 0, ages |-> CoarseAges]
    /\ pc = "columns"
    /\ metrics = NewMetrics
    /\ scores = << >>
    /\ total_rows = 0
    /\ faults = {}
    /\ latest = NoFreshness
    /\ schema \in SchemaChoices
    /\ issued = {}
    /\ \E k \in Variants : ConnectedAs(k)
    /\ IdleGrade /\ IdleStats /\ IdleOverview /\ IdleSession

QueryNext == AnalyzeColumn \/ AnalyzeTable

QuerySpec == QueryInit /\ [][QueryNext]_vars

\* The request handlers on one session, from a state without session, on
\* every database the bounds allow.
SessionInit ==
    /\ catalog \in Catalogs
    /\ _sessions = NoSession
    /\ _schema_snapshots = NoSnapshot
    /\ _chat_history = 0
    /\ baseline = NoSnapshot
    /\ reply = NoReply
    /\ IdleGuard /\ IdleGrade /\ IdleStats /\ IdleAnalysis /\ IdleOverview

\* The handlers that leave the schema snapshot alone, on a database that
\* stays as it is.
SessionNext ==
    \/ ConnectHandler \/ GetTableDetail \/ AnalyzeQuality \/ Enrich \/ Chat
    \/ ExecuteSql \/ ExportDocs \/ DeleteSession

SessionSpec == SessionInit /\ [][SessionNext]_vars

\* Connecting and schema-diff requests on a database that is altered
\* between the requests.
DiffInit == SessionInit

DiffNext == ConnectHandler \/ SchemaDiff \/ AlterSchema \/ DeleteSession

DiffSpec == DiffInit /\ [][DiffNext]_vars

\* compute_database_quality_overview on every list of reports drawn.
OverviewInit ==
    /\ table_metrics \in ReportLists(MaxTables)
    /\ overview = NoOverview
    /\ IdleGuard /\ IdleGrade /\ IdleStats /\ IdleAnalysis /\ IdleSession

OverviewNext == ComputeOverview

OverviewSpec == OverviewInit /\ [][OverviewNext]_vars

(***************************************************************************)
(* Claims                                                                  *)
(***************************************************************************)

\* C1: every statement passed to execute() of a connected connector whose
\* leading keyword is not one of SELECT, WITH, SHOW, DESCRIBE, EXPLAIN,
\* PRAGMA, VALUES is rejected with the read-only error naming that keyword
\* and is never handed to the backend cursor.
C1_AllowListEnforced ==
    (call.made /\ conn /\ LeadingKeyword(call.sql) \notin ReadOnlyKeywords) =>
        /\ call.error.type = "ValueError"
        /\ call.error.first.keyword = LeadingKeyword(call.sql)
        /\ ~call.handed

\* A statement that begins with one of the write keywords.
IsWriteStatement(sql) ==
    sql.prefix \in {"", "ws"} /\ Upper(sql) \in _WRITE_PATTERN

\* C2: on every backend variant, a statement beginning with a write keyword
\* such as UPDATE, passed to execute() of a connected connector, is rejected
\* by the read-only guard before any cursor call.
C2_GuardOnEveryVariant ==
    (call.made /\ conn /\ IsWriteStatement(call.sql)) =>
        /\ call.error.type = "ValueError"
        /\ ~call.handed

\* The fields get_column_stats has stored when the named query is issued.
FieldsBefore(q) ==
    CASE q \in {"total", "nulls"} -> {}
      [] q = "distinct" -> {"total_rows", "null_count", "null_pct", "completeness_pct"}
      [] OTHER -> {"total_rows", "null_count", "null_pct", "completeness_pct",
                   "distinct_count", "uniqueness_pct"}

\* Whether a call on column facts t issues the named query at all.
Issues(t, q) ==
    CASE q = "agg" -> IsNumericType(t.dtype)
      [] q = "top" -> t.distinct <= 50
      [] q = "date" -> IsDateType(t.dtype)
      [] OTHER -> TRUE

\* C3: get_column_stats lets no exception of its queries out: when the row
\* count, null count, distinct count, aggregate, top values or date range
\* query fails, it returns the stats with an error field for that query and
\* with the fields stored before the failure.
C3_StatsErrorsCaptured ==
    st_out.called =>
        /\ st_out.raised = None
        /\ (st_out.fail # None /\ Issues(st_in, st_out.fail)) =>
              /\ Has(st_out.stats, "error")
              /\ st_out.stats["error"] = st_out.fail
              /\ FieldsBefore(st_out.fail) \subseteq DOMAIN st_out.stats
        /\ ((st_out.fail = None \/ ~Issues(st_in, st_out.fail)) /\ ~st_out.std_fails) =>
              ~Has(st_out.stats, "error")

C3_Witness ==
    /\ st_out.called /\ st_out.fail = "date" /\ st_in.dtype = "TIMESTAMP"
    /\ Has(st_out.stats, "error") /\ Has(st_out.stats, "top_values")
    /\ st_out.raised = None

\* C5: a stats record returned without error has completeness_pct within
\* one hundredth of 100 - null_pct when total_rows > 0, and both at 0 when
\* total_rows = 0.
C5_CompletenessComplementsNulls ==
    (st_out.called /\ st_out.raised = None /\ ~Has(st_out.stats, "error")) =>
        LET c == st_out.stats["completeness_pct"]
            n == st_out.stats["null_pct"]
        IN  /\ st_in.total > 0 => (c + n - Pct(100)) \in -1 .. 1
            /\ st_in.total = 0 => (c = 0 /\ n = 0)

C5_Witness ==
    /\ st_out.called /\ ~Has(st_out.stats, "error")
    /\ st_in.total = 3 /\ st_in.nulls = 1
    /\ st_out.stats["null_pct"] = 3333
    /\ st_out.stats["completeness_pct"] = 6667

\* C6: uniqueness_pct lies in [0, 100], and uniqueness_pct = 100 implies
\* that distinct_count equals the number of non-null rows.
C6_UniquenessExact ==
    (st_out.called /\ Has(st_out.stats, "uniqueness_pct")) =>
        LET u == st_out.stats["uniqueness_pct"] IN
        /\ u \in 0 .. Pct(100)
        /\ u = Pct(100) =>
             st_out.stats["distinct_count"]
               = st_out.stats["total_rows"] - st_out.stats["null_count"]

\* The grade the published thresholds (inclusive lower bounds) give a score.
Thresholds ==
    <<0, Pct(50), Pct(55), Pct(60), Pct(65), Pct(70), Pct(75), Pct(80),
      Pct(85), Pct(90), Pct(95)>>

PublishedGrade(sc) ==
    Grades[CHOOSE i \in DOMAIN Thresholds :
             /\ Thresholds[i] <= sc
             /\ \A j \in DOMAIN Thresholds : Thresholds[j] <= sc => j <= i]

\* C7: every score of [0, 100] gets the one grade of the 11 whose inclusive
\* lower bound is the greatest not above it, and a higher score never gets
\* a lower grade.
C7_GradeTotalMonotonic ==
    grade # None =>
        /\ \E i \in DOMAIN Grades : grade = Grades[i]
        /\ grade = PublishedGrade(score)
        /\ \A d \in 1 .. MaxStep :
             score + d <= Pct(100) =>
                Rank(_score_to_grade(score + d, 1)) >= Rank(grade)

C7_Witness == score = 8990 /\ grade = "A-"

\* An issue is critical.
Critical(i) == i.severity = "critical"

CriticalIssues == SelectSeq(metrics.issues, Critical)

\* C4: analyze_table_quality raises nothing and returns a report with a
\* column_metrics entry for every input column, whichever statistics,
\* composite-key or freshness queries fail.
C4_ReportCoversEveryColumn ==
    /\ pc # "raised"
    /\ pc = "done" =>
         \A i \in DOMAIN columns :
            Has(metrics.column_metrics, columns[i].column_name)

C4_Witness ==
    /\ pc = "done" /\ Len(columns) = 2
    /\ faults = {"composite", "freshness"}
    /\ Has(metrics.column_metrics["id"], "error")
    /\ ~Has(metrics.column_metrics["unit_price"], "error")

\* The place of an issue in the order of discovery: the issues of a column
\* (completeness, uniqueness, price) in column order, then the primary-key
\* issue, then the freshness issue.
Discovery(i) ==
    CASE i.message \in {"NULL values in a NOT NULL column", "Low completeness"} ->
            3 * IndexOf(columns, i.column[1])
      [] i.message = "PRIMARY KEY has duplicate values" ->
            3 * IndexOf(columns, i.column[1]) + 1
      [] i.message = "Negative values in price column" ->
            3 * IndexOf(columns, i.column[1]) + 2
      [] i.message \in {"Table has no primary key",
                        "Composite PRIMARY KEY has duplicate combinations"} ->
            3 * (Len(columns) + 1)
      [] i.message = "Data may be stale" -> 3 * (Len(columns) + 1) + 1

SeverityRank == [critical |-> 0, high |-> 1, medium |-> 2, low |-> 3]

\* C8: the issue list of a returned report is ordered by severity rank
\* critical < high < medium < low, and issues of equal severity stand in
\* their order of discovery.
C8_IssuesSortedStable ==
    pc = "done" =>
        \A i, j \in DOMAIN metrics.issues :
            i < j =>
              LET a == metrics.issues[i]
                  b == metrics.issues[j]
              IN  /\ a.severity \in DOMAIN SeverityRank
                  /\ b.severity \in DOMAIN SeverityRank
                  /\ SeverityRank[a.severity] <= SeverityRank[b.severity]
                  /\ a.severity = b.severity => Discovery(a) < Discovery(b)

C8_Witness ==
    /\ pc = "done"
    /\ \E i, j \in DOMAIN metrics.issues :
         /\ i < j
         /\ Discovery(metrics.issues[i]) > Discovery(metrics.issues[j])
    /\ \E i, j \in DOMAIN metrics.issues :
         /\ i < j
         /\ metrics.issues[i].severity = metrics.issues[j].severity

\* C9: with exactly one primary-key column whose uniqueness_pct is below
\* 100, the report holds exactly one critical issue, on that column; and a
\* key column of a 2-row table whose rows share the value has
\* uniqueness_pct 50.
C9_SinglePkDuplicates ==
    (pc = "done" /\ Len(PkColNames(columns)) = 1) =>
        LET p == PkColNames(columns)[1]
            m == metrics.column_metrics[p]
        IN  /\ (Has(m, "uniqueness_pct") /\ m["uniqueness_pct"] < Pct(100)) =>
                 /\ Len(CriticalIssues) = 1
                 /\ CriticalIssues[1].column = <<p>>
            /\ (/\ Has(m, "uniqueness_pct")
                /\ m["total_rows"] = 2 /\ m["null_count"] = 0
                /\ m["distinct_count"] = 1) => m["uniqueness_pct"] = Pct(50)

C9_Witness ==
    /\ pc = "done" /\ PkColNames(columns) = <<"id">>
    /\ Has(metrics.column_metrics["id"], "uniqueness_pct")
    /\ metrics.column_metrics["id"]["total_rows"] = 2
    /\ metrics.column_metrics["id"]["distinct_count"] = 1
    /\ metrics.column_metrics["id"]["uniqueness_pct"] = Pct(50)
    /\ Len(CriticalIssues) = 1

\* What C10 promises of a report.
OneCompositeCritical ==
    /\ Len(CriticalIssues) = 1
    /\ CriticalIssues[1].column = PkColNames(columns)
    /\ \A i \in DOMAIN metrics.issues :
         Critical(metrics.issues[i]) => Len(metrics.issues[i].column) > 1

IssuesOn(name, messages) ==
    SelectSeq(metrics.issues,
              LAMBDA i : i.column = <<name>> /\ i.message \in messages)

\* The highlights of a report on the given column.
HighlightsOn(name) ==
    SelectSeq(metrics.highlights, LAMBDA h : h.column = <<name>>)

CompletenessMessages == {"NULL values in a NOT NULL column", "Low completeness"}

\* The statistics of a column show no NULLs and as many distinct values as rows.
CleanStats(m) ==
    /\ Has(m, "null_count") /\ Has(m, "distinct_count")
    /\ m["null_count"] = 0
    /\ m["distinct_count"] = m["total_rows"]

\* C11: a NOT NULL column whose statistics show no NULLs and as many
\* distinct values as rows produces no completeness issue, no uniqueness
\* issue, and exactly one highlight, the one for 100% completeness.
C11_CleanColumnOneHighlight ==
    pc = "done" =>
        \A i \in DOMAIN columns :
            LET name == columns[i].column_name
                m == metrics.column_metrics[name]
            IN  (~columns[i].is_nullable /\ CleanStats(m)) =>
                   /\ IssuesOn(name, CompletenessMessages) = << >>
                   /\ IssuesOn(name, {"PRIMARY KEY has duplicate values"}) = << >>
                   /\ Len(HighlightsOn(name)) = 1
                   /\ HighlightsOn(name)[1].text = "100% complete"

\* The published freshness bands: upper edge in days and points given.
FreshnessBands ==
    <<[edge |-> 1, points |-> 100], [edge |-> 7, points |-> 90],
      [edge |-> 30, points |-> 80], [edge |-> 90, points |-> 65],
      [edge |-> 180, points |-> 50], [edge |-> 365, points |-> 35]>>

\* The points of the first band whose edge is not below d days, else 20.
BandPoints(d) ==
    IF \E i \in DOMAIN FreshnessBands : d <= FreshnessBands[i].edge
    THEN FreshnessBands[CHOOSE i \in DOMAIN FreshnessBands :
                          /\ d <= FreshnessBands[i].edge
                          /\ \A j \in DOMAIN FreshnessBands :
                               d <= FreshnessBands[j].edge => i <= j].points
    ELSE 20

StaleIssues ==
    SelectSeq(metrics.issues, LAMBDA i : i.message = "Data may be stale")

\* C12: for a table with a temporal column, freshness_score follows the
\* fixed bands on the age of the MAX value (75 for an unparseable value or
\* a failed query, 50 for no rows or a NULL max), and a medium freshness
\* issue on that column is in the report exactly when the score is below 50.
C12_FreshnessBands ==
    (pc = "done" /\ Len(DateColNames(columns)) > 0) =>
        LET fs == metrics.table_level["freshness_score"] IN
        /\ Len(fs) = 1
        /\ latest.what = "date" => fs[1] = Pct(BandPoints(latest.age))
        /\ latest.what \in {"unparseable", "raises"} => fs[1] = Pct(75)
        /\ latest.what = "null" => fs[1] = Pct(50)
        /\ Len(StaleIssues) = (IF fs[1] < Pct(50) THEN 1 ELSE 0)
        /\ \A i \in DOMAIN StaleIssues :
             /\ StaleIssues[i].severity = "medium"
             /\ StaleIssues[i].column = <<DateColNames(columns)[1]>>
        /\ (latest.what = "date" /\ latest.age = 400) =>
             (fs[1] = Pct(20) /\ Len(StaleIssues) = 1)
        /\ (latest.what = "date" /\ latest.age = 0) =>
             (fs[1] = Pct(100) /\ Len(StaleIssues) = 0)

C12_Witness ==
    /\ pc = "done" /\ DateColNames(columns) = <<"updated_at">>
    /\ latest = [what |-> "date", age |-> 181]
    /\ metrics.table_level["freshness_score"] = <<Pct(35)>>
    /\ Len(StaleIssues) = 1

\* The overall_score values of the reports handed to the overview.
ReportScores == [i \in DOMAIN table_metrics |-> table_metrics[i].overall_score]

\* An overview was computed over at least one report.
Overviewed == overview.returned /\ table_metrics # << >>

\* v is a multiple of a tenth nearest to sum / count (all in hundredths).
IsMeanToOneDecimal(v, sum, count) ==
    /\ v % 10 = 0
    /\ 2 * (v * count - sum) <= 10 * count
    /\ 2 * (sum - v * count) <= 10 * count

\* The grade the published thresholds give the mean sum / count.
PublishedGradeOfMean(sum, count) ==
    Grades[CHOOSE i \in DOMAIN Thresholds :
             /\ Thresholds[i] * count <= sum
             /\ \A j \in DOMAIN Thresholds : Thresholds[j] * count <= sum => j <= i]

TablesScoring(S) ==
    Cardinality({i \in DOMAIN ReportScores : ReportScores[i] \in S})

\* The first report in iteration order whose score is the extreme one.
FirstWith(sc) ==
    table_metrics[CHOOSE i \in DOMAIN ReportScores :
                    /\ ReportScores[i] = sc
                    /\ \A j \in DOMAIN ReportScores : ReportScores[j] = sc => i <= j]

HighestScore ==
    CHOOSE m \in {ReportScores[i] : i \in DOMAIN ReportScores} :
        \A i \in DOMAIN ReportScores : ReportScores[i] <= m

LowestScore ==
    CHOOSE m \in {ReportScores[i] : i \in DOMAIN ReportScores} :
        \A i \in DOMAIN ReportScores : ReportScores[i] >= m

\* C14: the bands excellent (>= 90), good [75, 90), fair [60, 75) and poor
\* (< 60) partition the reports, so the four counts sum to the number of
\* tables; best_table and worst_table are the tables of maximum and minimum
\* overall_score, the first in iteration order on a tie.
C14_BandsPartitionBestWorst ==
    Overviewed =>
        LET o == overview.value
            d == o.score_distribution
        IN  /\ d.excellent = TablesScoring(Pct(90) .. Pct(100))
            /\ d.good = TablesScoring(Pct(75) .. Pct(90) - 1)
            /\ d.fair = TablesScoring(Pct(60) .. Pct(75) - 1)
            /\ d.poor = TablesScoring(0 .. Pct(60) - 1)
            /\ d.excellent + d.good + d.fair + d.poor = Len(table_metrics)
            /\ o.best_table = FirstWith(HighestScore).table_name
            /\ o.worst_table = FirstWith(LowestScore).table_name
            /\ ReportScores = <<Pct(95), Pct(72), Pct(40)>> =>
                 /\ d = [excellent |-> 1, good |-> 0, fair |-> 1, poor |-> 1]
                 /\ o.worst_table = table_metrics[3].table_name

C14_Witness ==
    /\ Overviewed
    /\ ReportScores = <<Pct(60), Pct(90), Pct(90)>>
    /\ overview.value.best_table = "customers"
    /\ overview.value.worst_table = "orders"
    /\ overview.value.score_distribution =
         [excellent |-> 2, good |-> 0, fair |-> 1, poor |-> 0]

\* C15: get_connector for a kind without an implementation (mysql,
\* sqlserver) raises an error that names the kind asked for and the
\* supported kinds, and builds no connector; each of the three supported
\* kinds yields its own connector variant.
C15_UnsupportedBackendRejected ==
    built.asked # None =>
        /\ built.asked \in {"mysql", "sqlserver"} =>
             /\ built.raised.type = "ValueError"
             /\ built.raised.names = built.asked
             /\ built.raised.supported = {"sqlite", "postgresql", "snowflake"}
             /\ built.class = None /\ kind = None
        /\ built.asked = "sqlite" =>
             (built.raised = NoError /\ built.class = "SQLiteConnector" /\ kind = "sqlite")
        /\ built.asked = "postgresql" =>
             (built.raised = NoError /\ built.class = "PostgreSQLConnector"
              /\ kind = "postgresql")
        /\ built.asked = "snowflake" =>
             (built.raised = NoError /\ built.class = "SnowflakeConnector"
              /\ kind = "snowflake")

C15_Witness ==
    /\ built.asked = "mysql"
    /\ built.raised.type = "ValueError"
    /\ kind = None

\* C16: on every variant, when the driver fails during connect(), the
\* caller gets a ConnectionError with a readable message, never the
\* driver's own or an internal exception.
C16_ConnectFailuresTranslated ==
    (link.called /\ link.driver # "session") =>
        /\ link.error.type = "ConnectionError"
        /\ link.error.readable
        /\ ~conn

\* The column_metrics entry of the i-th input column.
MetricsOf(i) == metrics.column_metrics[columns[i].column_name]

\* The primary-key and freshness contributions, read off the report.
KeyContribution == IF metrics.table_level["has_primary_key"] THEN Pct(100) ELSE Pct(70)

FreshnessContribution == metrics.table_level["freshness_score"]

\* The reported overall_score is in [0, 100] and is the mean, to 1 decimal,
\* of the given per-column contributions, the key contribution and the
\* freshness score when there is one.
IsOverallOf(perColumn) ==
    LET contributions == perColumn \o <<KeyContribution>> \o FreshnessContribution IN
    /\ Len(FreshnessContribution) = (IF Len(DateColNames(columns)) > 0 THEN 1 ELSE 0)
    /\ IsMeanToOneDecimal(metrics.overall_score, Sum(contributions), Len(contributions))
    /\ metrics.overall_score \in 0 .. Pct(100)

\* C17: overall_score is the mean, rounded to 1 decimal, of one
\* completeness_pct per column, one primary-key contribution, and the
\* freshness score if and only if the table has a temporal column; it lies
\* in [0, 100].
C17_OverallScoreIsMean ==
    pc = "done" =>
        /\ \A i \in DOMAIN columns : Has(MetricsOf(i), "completeness_pct")
        /\ IsOverallOf([i \in DOMAIN columns |-> MetricsOf(i)["completeness_pct"]])

\* What holds instead: a column whose statistics carry no completeness_pct
\* (they failed before it was computed) contributes 100.
OverallScoreCountsFailedColumnsAsComplete ==
    pc = "done" =>
        IsOverallOf([i \in DOMAIN columns |->
                       Get(MetricsOf(i), "completeness_pct", Pct(100))])

\* How many issues of a severity and message the report holds on a column.
CountOn(name, sev, message) ==
    Len(SelectSeq(IssuesOn(name, {message}), LAMBDA i : i.severity = sev))

\* The completeness issues on the i-th column are high or medium, and
\* there is one of each exactly when the given condition holds.
CompletenessIssuesAre(i, high, medium) ==
    LET name == columns[i].column_name IN
    /\ CountOn(name, "high", "NULL values in a NOT NULL column") = (IF high THEN 1 ELSE 0)
    /\ CountOn(name, "medium", "Low completeness") = (IF medium THEN 1 ELSE 0)
    /\ Len(IssuesOn(name, CompletenessMessages))
         = CountOn(name, "high", "NULL values in a NOT NULL column")
           + CountOn(name, "medium", "Low completeness")

\* The completeness the analyzer took for the i-th column.
CompletenessOf(i) == MetricsOf(i)["completeness_score"]

HighWhen(i) == CompletenessOf(i) < Pct(50) /\ ~columns[i].is_nullable

MediumWhenBetween(i) == Pct(50) <= CompletenessOf(i) /\ CompletenessOf(i) < Pct(80)

MediumWhenNotHigh(i) == CompletenessOf(i) < Pct(80) /\ ~HighWhen(i)

\* C18 as claimed: per column, a high completeness issue exactly when
\* completeness is below 50 and the column is NOT NULL, a medium one exactly
\* when completeness is between 50 and 80, and none otherwise, a nullable
\* column below 50 included.
C18_CompletenessIssues_Claimed ==
    pc = "done" =>
        \A i \in DOMAIN columns :
            CompletenessIssuesAre(i, HighWhen(i), MediumWhenBetween(i))

\* C18: per column, a high completeness issue exactly when completeness is
\* below 50 and the column is NOT NULL, a medium one exactly when
\* completeness is below 80 and the high one does not apply (between 50 and
\* 80, or below 50 on a nullable column), and none from 80 upwards.
C18_CompletenessIssues ==
    pc = "done" =>
        \A i \in DOMAIN columns :
            CompletenessIssuesAre(i, HighWhen(i), MediumWhenNotHigh(i))

C18_Witness ==
    /\ pc = "done" /\ columns[1].is_nullable
    /\ MetricsOf(1)["completeness_score"] = Pct(40)
    /\ CountOn(columns[1].column_name, "medium", "Low completeness") = 1

\* The table-level issues of the report: those whose column is None.
TableLevelIssues == SelectSeq(metrics.issues, LAMBDA i : i.column = << >>)

\* The primary-key contribution: the entry of scores after the columns'.
KeyScore == scores[Len(columns) + 1]

\* C19: a table without a primary-key column gets exactly one medium
\* table-level issue (column None) and a key contribution of 70; a table
\* with one or more primary-key columns gets no such issue and a
\* contribution of 100, also with a critical duplicate-key issue or a failed
\* composite-key query.
C19_PrimaryKeyPresence ==
    pc = "done" =>
        IF PkColNames(columns) = << >>
        THEN /\ Len(TableLevelIssues) = 1
             /\ TableLevelIssues[1].severity = "medium"
             /\ TableLevelIssues[1].message = "Table has no primary key"
             /\ KeyScore = Pct(70)
        ELSE /\ TableLevelIssues = << >>
             /\ KeyScore = Pct(100)

C19_Witness ==
    /\ pc = "done" /\ Len(columns) = 2 /\ PkColNames(columns) = << >>
    /\ Len(TableLevelIssues) = 1
    /\ KeyScore = Pct(70)
    /\ Len(metrics.issues) > 1

\* How many issues of a severity the reports handed to the overview hold.
RECURSIVE IssuesOfSeverity(_, _)
IssuesOfSeverity(tm, sev) ==
    IF tm = << >> THEN 0
    ELSE Len(SelectSeq(Head(tm).issues, LAMBDA i : i.severity = sev))
         + IssuesOfSeverity(Tail(tm), sev)

\* A tagged issue is an issue of the report of the table it is tagged with.
IsIssueOfItsTable(t) ==
    \E i \in DOMAIN table_metrics :
        /\ table_metrics[i].table_name = t.table
        /\ \E k \in DOMAIN table_metrics[i].issues :
             LET u == table_metrics[i].issues[k]
             IN  u.severity = t.severity /\ u.column = t.column /\ u.message = t.message

\* C20: critical_issues and high_issues are the numbers of critical and of
\* high issues over all reports; top_issues holds at most 5 issues, each
\* tagged with its table, every critical one before every high one, and no
\* medium or low one.
C20_TopIssues ==
    Overviewed =>
        LET o == overview.value
            top == o.top_issues
        IN  /\ o.critical_issues = IssuesOfSeverity(table_metrics, "critical")
            /\ o.high_issues = IssuesOfSeverity(table_metrics, "high")
            /\ Len(top) <= 5
            /\ Len(top) = Min2(5, o.critical_issues + o.high_issues)
            /\ \A i \in DOMAIN top :
                 /\ top[i].severity \in {"critical", "high"}
                 /\ IsIssueOfItsTable(top[i])
            /\ \A i, j \in DOMAIN top :
                 (top[i].severity = "critical" /\ top[j].severity = "high") => i < j

C20_Witness ==
    /\ Overviewed
    /\ overview.value.critical_issues = 2 /\ overview.value.high_issues = 4
    /\ Len(overview.value.top_issues) = 5
    /\ overview.value.top_issues[2].table = "items"
    /\ overview.value.top_issues[3].table = "orders"
    /\ overview.value.top_issues[3].severity = "high"

\* The call issued the standard-deviation query, it raised, and no other
\* query of the call fails of its own.
OnlyStdDevFailed ==
    /\ st_out.called /\ st_out.std_fails
    /\ IsNumericType(st_in.dtype) /\ st_in.distinct > 0
    /\ (st_out.fail = None \/ ~Issues(st_in, st_out.fail))

\* C21: a failure of the standard-deviation query does not fail the
\* statistics computation: the record keeps min, max, avg and sum, has no
\* std_dev and no error field, and the later steps (top values, date range)
\* still run.
C21_StdDevBestEffort ==
    OnlyStdDevFailed =>
        /\ st_out.raised = None
        /\ {"min", "max", "avg", "sum"} \subseteq DOMAIN st_out.stats
        /\ ~Has(st_out.stats, "std_dev")
        /\ ~Has(st_out.stats, "error")
        /\ st_in.distinct <= 50 => Has(st_out.stats, "top_values")
        /\ IsDateType(st_in.dtype) => Has(st_out.stats, "min_date")

\* What holds on the variants whose session survives a failed statement.
StdDevBestEffortWhereSessionSurvives ==
    (OnlyStdDevFailed /\ kind \in {"sqlite", "snowflake"}) =>
        /\ st_out.raised = None
        /\ {"min", "max", "avg", "sum"} \subseteq DOMAIN st_out.stats
        /\ ~Has(st_out.stats, "std_dev")
        /\ ~Has(st_out.stats, "error")
        /\ st_in.distinct <= 50 => Has(st_out.stats, "top_values")

\* Positions of the analysed columns whose type is temporal.
TemporalPositions == {i \in DOMAIN columns : IsDateType(columns[i].data_type)}

FirstTemporal == CHOOSE i \in TemporalPositions : \A j \in TemporalPositions : i <= j

\* C22: a table without a temporal column has freshness_score None (not 0),
\* no freshness query is issued, freshness adds nothing to the scores and no
\* freshness issue is raised; with several temporal columns the freshness
\* is that of the first one in column order, reported as freshness_column.
C22_FreshnessColumnChoice ==
    pc = "done" =>
        IF TemporalPositions = {}
        THEN /\ metrics.table_level["freshness_score"] = << >>
             /\ ~Has(metrics.table_level, "freshness_column")
             /\ latest = NoFreshness
             /\ Len(scores) = Len(columns) + 1
             /\ StaleIssues = << >>
        ELSE /\ metrics.table_level["freshness_column"] =
                  columns[FirstTemporal].column_name
             /\ latest # NoFreshness
             /\ metrics.table_level["freshness_score"] =
                  <<Pct(_compute_freshness(latest))>>
             /\ Len(scores) = Len(columns) + 2
             /\ \A i \in DOMAIN StaleIssues :
                  StaleIssues[i].column = <<columns[FirstTemporal].column_name>>

\* Two temporal columns: the first one is the freshness column and carries
\* the stale-data issue.
C22_Witness ==
    /\ pc = "done" /\ Len(columns) = 2
    /\ TemporalPositions = {1, 2}
    /\ metrics.table_level["freshness_column"] = "id"
    /\ latest = [what |-> "date", age |-> 400]
    /\ Len(StaleIssues) = 1

\* A table without temporal column has been analysed.
C22_WitnessNoTemporal ==
    /\ pc = "done" /\ Len(columns) = 2 /\ TemporalPositions = {}
    /\ metrics.table_level["freshness_score"] = << >>

\* The table reference and the column references the connector's own
\* functions give for the analysed table and the schema handed in.
ConnectorTableRef == _qualified_table(kind, TableName, schema)

ConnectorColumnRefs == {_quote(kind, columns[i].column_name) : i \in DOMAIN columns}

\* C23: every data query issued while a table is analysed (the statistics
\* queries, the composite-key GROUP BY, the freshness MAX) refers to the
\* table and the columns through the connector's quoting and qualification
\* functions, with the schema given to analyze_table_quality.
C23_QueriesUseConnectorQuoting ==
    \A q \in issued :
        /\ q.table = ConnectorTableRef
        /\ q.cols \subseteq ConnectorColumnRefs

\* What holds: the statistics queries are built by the connector's
\* functions, without the schema handed to the analysis.
StatsQueriesUseConnectorQuotingWithoutSchema ==
    \A q \in issued :
        q.step = "stats" =>
            /\ q.table = _qualified_table(kind, TableName, None)
            /\ q.cols \subseteq ConnectorColumnRefs

\* With no schema handed in, the base quoting is also what the composite
\* and freshness queries carry.
QueriesAgreeOnBaseQuotingWithoutSchema ==
    (kind \in {"sqlite", "postgresql"} /\ schema = None) =>
        \A q \in issued :
            /\ q.table = ConnectorTableRef
            /\ q.cols \subseteq ConnectorColumnRefs

\* C24: every connector a request handler opens is released with
\* disconnect() before the handler returns, on success and on every failure
\* path, so none still holds a connection when the handler has answered.
C24_ConnectorsReleased == ~reply.live

\* What holds: the handlers that go through _open_connector release the
\* connector on every path; only /connect can return with it connected.
ConnectorsReleasedButByConnect == reply.live => reply.handler = "connect"

\* C25: in an analyze-quality request over several tables, a failure
\* while one table is analysed (its column listing raising) does not abort
\* the request: the reports of the other tables are produced and stored
\* and the overview is computed.
C25_OneTableFailureIsolated ==
    (/\ reply.handler = "analyze_quality"
     /\ reply.bad # {}
     /\ reply.targets \ reply.bad # {}) =>
        /\ reply.status = 200
        /\ \A t \in reply.targets \ reply.bad : Has(_sessions.quality_data, t)
        /\ _sessions.quality_overview # EmptyDict

\* What the handler does when a column listing raises: the request is
\* answered with status 500.
AnalyzeQualityAbortsOnFailure ==
    (reply.handler = "analyze_quality" /\ reply.bad # {}) => reply.status = 500

\* C30: after any sequence of analyze-quality requests the session's
\* quality_overview aggregates every table that has a report in
\* quality_data, not only those of the latest request.
C30_OverviewCoversQualityData ==
    _sessions.connected =>
        IF DOMAIN _sessions.quality_data = {}
        THEN _sessions.quality_overview = EmptyDict
        ELSE /\ _sessions.quality_overview # EmptyDict
             /\ _sessions.quality_overview.total_tables =
                  Cardinality(DOMAIN _sessions.quality_data)

\* What holds: the overview counts the tables of the latest successful
\* analyze-quality request only.
OverviewCoversLatestRequest ==
    (reply.handler = "analyze_quality" /\ reply.status = 200) =>
        IF reply.targets = {} THEN _sessions.quality_overview = EmptyDict
        ELSE _sessions.quality_overview.total_tables = Cardinality(reply.targets)

\* C26: every schema-diff call reports the changes between the snapshot
\* taken when the session was connected and the schema it reads, however
\* many schema-diff calls came before.
C26_DiffAgainstInitialSnapshot ==
    (reply.handler = "schema_diff" /\ reply.status = 200) =>
        reply.changes = Changes(baseline, reply.seen)

Severities == {"critical", "high", "medium", "low"}

\* The names of the analysed columns.
AnalysedNames == {columns[i].column_name : i \in DOMAIN columns}

OverviewIssuesWellFormed ==
    Overviewed =>
        \A i \in DOMAIN overview.value.top_issues :
            LET issue == overview.value.top_issues[i] IN
            /\ DOMAIN issue = {"severity", "column", "message", "table"}
            /\ issue.severity \in {"critical", "high"}
            /\ issue.message # ""

\* C28: in every table report the grade is the grade mapping applied to
\* the reported, rounded overall_score, and in every overview
\* database_grade is the grade mapping applied to the reported
\* database_score.
C28_GradeOfReportedScore ==
    /\ pc = "done" => metrics.grade = PublishedGrade(metrics.overall_score)
    /\ Overviewed =>
         overview.value.database_grade = PublishedGrade(overview.value.database_score)

\* The i-th column's statistics failed before completeness_pct was computed.
FailedBeforeCompleteness(i) ==
    Has(MetricsOf(i), "error") /\ ~Has(MetricsOf(i), "completeness_pct")

\* C29: a column whose statistics failed before completeness_pct was
\* computed is scored as completeness 100: it contributes 100 to the
\* average, gets no completeness issue, and a NOT NULL column gets the
\* '100% complete' highlight.
C29_FailedColumnScoredComplete ==
    pc = "done" =>
        \A i \in DOMAIN columns :
            FailedBeforeCompleteness(i) =>
                LET name == columns[i].column_name IN
                /\ MetricsOf(i)["completeness_score"] = Pct(100)
                /\ scores[i] = Pct(100)
                /\ IssuesOn(name, CompletenessMessages) = << >>
                /\ Len(SelectSeq(HighlightsOn(name), LAMBDA h : h.text = "100% complete"))
                     = (IF columns[i].is_nullable THEN 0 ELSE 1)

\* A NOT NULL column whose statistics failed at the first query, next to a
\* column that is half empty: the report counts 100 and 50.
C29_Witness ==
    /\ pc = "done" /\ Len(columns) = 2
    /\ FailedBeforeCompleteness(1) /\ ~columns[1].is_nullable
    /\ Len(HighlightsOn(columns[1].column_name)) = 1
    /\ Get(MetricsOf(2), "completeness_pct", Pct(100)) = Pct(50)
    /\ scores[1] = Pct(100) /\ scores[2] = Pct(50)

====
